---- MODULE Spec2Model ----
(***************************************************************************)
(* Model of the two utility scripts of python-scripts/:                    *)
(*   generate-contact-whitelist.py   CSV of contacts -> two filter files   *)
(*   delete-all-items-from-dynamodb.py   scan a table, batch-delete items  *)
(*                                                                         *)
(* A string is a sequence of one-character strings; a document is a        *)
(* string.  Python's None is the value None below.                         *)
(***************************************************************************)
EXTENDS Integers, Sequences, FiniteSets, TLC

\* ------------------------------------------------------------- bounds ---

\* Longest input table (rows of the CSV file).
MaxRows == 3
\* Longest address over Alphabet.
MaxLen == 1
\* Partition keys and sort keys of the items of the DynamoDB table.
MaxPk == 2
MaxSk == 2

\* ------------------------------------------------------------ strings ---

None == << "None" >>
Absent == << "Absent" >>

Range(s) == { s[i] : i \in DOMAIN s }

\* Unicode code point of a character (Python compares str by code point).
CodePoint(c) ==
    CASE c = "\"" -> 34
      [] c = "." -> 46
      [] c = "@" -> 64
      [] c = "a" -> 97
      [] c = "c" -> 99
      [] c = "e" -> 101
      [] c = "i" -> 105
      [] c = "l" -> 108
      [] c = "m" -> 109
      [] c = "o" -> 111
      [] c = "x" -> 120
      [] c = "y" -> 121

\* A comparison the wrong way round (a descending sort).
StrLessReversed(a, b) ==
    \E k \in 1..Len(a) :
        /\ \A j \in 1..(k - 1) : j <= Len(b) /\ a[j] = b[j]
        /\ \/ k = Len(b) + 1
           \/ k <= Len(b) /\ CodePoint(a[k]) > CodePoint(b[k])

\* str.__lt__: lexicographic by code point, a proper prefix is smaller.
RECURSIVE StrLess(_, _)
StrLess(a, b) ==
    IF b = << >> THEN FALSE
    ELSE IF a = << >> THEN TRUE
    ELSE IF CodePoint(a[1]) < CodePoint(b[1]) THEN TRUE
    ELSE IF CodePoint(a[1]) > CodePoint(b[1]) THEN FALSE
    ELSE StrLess(Tail(a), Tail(b))

\* "@" in value, instead of value.startswith("@").
StartsWithAtAnywhere(value) == "@" \in Range(value)

\* value.startswith("@")
StartsWithAt(value) == Len(value) >= 1 /\ value[1] = "@"

\* list.sort() on a list of str: insertion of each element at its place.
RECURSIVE Insert(_, _)
Insert(x, s) ==
    IF s = << >> THEN << x >>
    ELSE IF StrLess(x, s[1]) THEN << x >> \o s
    ELSE << s[1] >> \o Insert(x, Tail(s))

RECURSIVE Sort(_)
Sort(s) == IF s = << >> THEN << >> ELSE Insert(s[1], Sort(Tail(s)))

\* sep.join(parts)
RECURSIVE Join(_, _)
Join(sep, parts) ==
    IF parts = << >> THEN << >>
    ELSE IF Len(parts) = 1 THEN parts[1]
    ELSE parts[1] \o sep \o Join(sep, Tail(parts))

\* ------------------------------------------------------------- inputs ---

Alphabet == { "@", "a" }

\* Every string over Alphabet of length at most MaxLen, a domain pattern,
\* and an exact email with a character that JSON escapes.
DomainPattern == << "@", "a" >>
QuotedAddress == << "a", "@", "\"" >>
Addresses ==
    UNION { [1..k -> Alphabet] : k \in 0..MaxLen }
        \cup { DomainPattern, QuotedAddress }

Rel == << "f" >>
Name == << "A" >>

\* A row with a field after the email column.
LongRow == << Rel, Name, << "a" >>, Rel >>

\* A row as csv.reader yields it: a list of fields.  A blank line is the
\* row []; rows of one or two fields are short of the email column.
Rows ==
    { << >>, << Rel >>, << Rel, Name >>, LongRow }
        \cup { << Rel, Name, e >> : e \in Addresses }

Tables == UNION { [1..k -> Rows] : k \in 0..MaxRows }

\* ------------------------------------------------------- csv.DictReader ---

fieldnames == << "relationship", "name", "email" >>

\* DictReader.__next__ on one row: fields by position, None (restval) for
\* a missing one; fields after the last name are not under these keys.
DictRow(row) ==
    [ f \in Range(fieldnames) |->
        LET i == CHOOSE j \in DOMAIN fieldnames : fieldnames[j] = f
        IN  IF i <= Len(row) THEN row[i] ELSE None ]

\* A reader that also skips the rows short of the email column.
ReaderSkippingShortRows(t) == SelectSeq(t, LAMBDA row : Len(row) >= 3)

\* DictReader skips the rows that are [].
Reader(t) == SelectSeq(t, LAMBDA row : row # << >>)

\* set([row["email"] for row in reader])
EmailSet(t) == { DictRow(row)["email"] : row \in Range(Reader(t)) }

\* The orders in which a set may be iterated (str hashes differ from one
\* run to the next).  Each comprehension below takes one of them.
Orders(S) == { f \in [1..Cardinality(S) -> S] : Range(f) = S }

\* list([value for value in values if value.startswith("@")])
Domains(vals) == SelectSeq(vals, StartsWithAt)

\* list([value for value in values if value not in domains])
Emails(vals, ds) == SelectSeq(vals, LAMBDA value : value \notin Range(ds))

\* ---------------------------------------------------------- rendering ---

\* json.dumps of a str (ASCII, no control character).
EscapeChar(c) ==
    IF c = "\"" THEN << "\\", "\"" >>
    ELSE IF c = "\\" THEN << "\\", "\\" >>
    ELSE << c >>

RECURSIVE Escape(_)
Escape(s) == IF s = << >> THEN << >> ELSE EscapeChar(s[1]) \o Escape(Tail(s))

JsonStr(s) == << "\"" >> \o Escape(s) \o << "\"" >>

\* json.dumps of a list of str.
JsonList(l) ==
    << "[" >>
        \o Join(<< ",", " " >>, [ i \in DOMAIN l |-> JsonStr(l[i]) ])
        \o << "]" >>

ProtonHead == <<
    "r", "e", "q", "u", "i", "r", "e", " ", "\"", "f", "i", "l", "e", "i",
    "n", "t", "o", "\"", ";", "\n", "\n", "i", "f", " ", "n", "o", "t", " ",
    "a", "n", "y", "o", "f", "(", "\n", "\t", "a", "d", "d", "r", "e", "s",
    "s", " ", ":", "i", "s", " ", "\"", "f", "r", "o", "m", "\"", " " >>

ProtonMid == <<
    ",", "\n", "\t", "a", "d", "d", "r", "e", "s", "s", " ", ":", "d", "o",
    "m", "a", "i", "n", " ", "\"", "f", "r", "o", "m", "\"", " " >>

ProtonTail == <<
    "\n", ")", "\n", "{", "\n", " ", " ", " ", " ", "f", "i", "l", "e", "i",
    "n", "t", "o", " ", "\"", "m", "i", "s", "c", "e", "l", "l", "a", "n",
    "e", "o", "u", "s", "\"", ";", "\n", "}", "\n" >>

\* The two match lists in each other's place.
ProtonmailFilterSwapped(ds, es) ==
    ProtonHead \o JsonList(ds) \o ProtonMid \o JsonList(es) \o ProtonTail

generate_protonmail_filter(ds, es) ==
    ProtonHead \o JsonList(es) \o ProtonMid \o JsonList(ds) \o ProtonTail

\* values = emails + domains.
GmailFilterEmailsFirst(ds, es) ==
    LET vs == es \o ds
    IN  << "N", "O", "T", " ", "{" >>
            \o Join(<< " " >>,
                    [ i \in DOMAIN vs |-> << "f", "r", "o", "m", ":" >> \o vs[i] ])
            \o << "}" >>

\* values = emails: the domain patterns are left out.
GmailFilterWithoutDomains(ds, es) ==
    << "N", "O", "T", " ", "{" >>
        \o Join(<< " " >>,
                [ i \in DOMAIN es |-> << "f", "r", "o", "m", ":" >> \o es[i] ])
        \o << "}" >>

\* "NOT {from:" + " from:".join(values) + "}": a first "from:" even when
\* there is no value.
GmailFilterLeadingFrom(ds, es) ==
    << "N", "O", "T", " ", "{", "f", "r", "o", "m", ":" >>
        \o Join(<< " ", "f", "r", "o", "m", ":" >>, ds \o es)
        \o << "}" >>

generate_gmail_filter(ds, es) ==
    LET vs == ds \o es
    IN  << "N", "O", "T", " ", "{" >>
            \o Join(<< " " >>,
                    [ i \in DOMAIN vs |-> << "f", "r", "o", "m", ":" >> \o vs[i] ])
            \o << "}" >>

\* -------------------------------------------------------------- state ---

VARIABLES
    table,      \* the rows of the file at csv_path
    files,      \* the two files under dist_path: content, or Absent
    open,       \* the file handles that are open
    pc,         \* position in generate_contact_whitelist
    values,     \* the set of emails
    domains,
    emails,
    error,      \* the exception that ended the run, or "none"
    failed_at,  \* the position at which it was raised, or "none"
    first,      \* the files as the first completed run left them, or None
    items,      \* the items (keys) of table rt-survey-recipients
    items0,     \* the items the table held when main() started
    page,       \* the scanned Items not yet iterated over
    batch,      \* delete requests buffered in the batch writer
    issued,     \* keys of every delete request sent to the table
    wpc         \* position in main()

gvars == << table, files, open, pc, values, domains, emails, error, failed_at,
           first >>
wvars == << items, items0, page, batch, issued, wpc >>
vars == << table, files, open, pc, values, domains, emails, error, failed_at,
           first, items, items0, page, batch, issued, wpc >>

\* ------------------------------------------ generate_contact_whitelist ---

NoSnapshot == [ protonmail |-> None, gmail |-> None ]

GInit ==
    /\ table \in Tables
    /\ files = [ protonmail |-> Absent, gmail |-> Absent ]
    /\ open = { }
    /\ pc = "start"
    /\ values = { }
    /\ domains = << >>
    /\ emails = << >>
    /\ error = "none"
    /\ failed_at = "none"
    /\ first = NoSnapshot

\* An exception leaves the with block (closing its file) and the function.
Raise(e) ==
    /\ pc' = "failed"
    /\ error' = e
    /\ failed_at' = pc
    /\ open' = { }

\* with open(csv_path, "r") as f
OpenCsv ==
    /\ pc = "start"
    /\ \/ /\ pc' = "read"
          /\ open' = open \cup { "csv" }
          /\ UNCHANGED << error, failed_at >>
       \/ Raise("FileNotFoundError")
    /\ UNCHANGED << table, files, values, domains, emails, first, wvars >>

\* values = set([row["email"] for row in reader])
ReadRows ==
    /\ pc = "read"
    /\ values' = EmailSet(table)
    /\ pc' = "close_csv"
    /\ UNCHANGED << table, files, open, domains, emails, error, failed_at, first,
                   wvars >>

\* The input file is never closed.
CloseCsvLeaking ==
    /\ pc = "close_csv"
    /\ pc' = "domains"
    /\ UNCHANGED << table, files, open, values, domains, emails, error,
                   failed_at, first, wvars >>

CloseCsv ==
    /\ pc = "close_csv"
    /\ open' = open \ { "csv" }
    /\ pc' = "domains"
    /\ UNCHANGED << table, files, values, domains, emails, error, failed_at, first,
                   wvars >>

\* domains = list([value for value in values if value.startswith("@")])
\* The set is iterated in some order; None has no startswith.
ComputeDomains ==
    /\ pc = "domains"
    /\ IF None \in values
       THEN /\ Raise("AttributeError")
            /\ UNCHANGED domains
       ELSE /\ \E vals \in Orders(values) : domains' = Domains(vals)
            /\ pc' = "emails"
            /\ UNCHANGED << open, error, failed_at >>
    /\ UNCHANGED << table, files, values, emails, first, wvars >>

\* emails = list([value for value in values if value not in domains])
ComputeEmails ==
    /\ pc = "emails"
    /\ \E vals \in Orders(values) : emails' = Emails(vals, domains)
    /\ pc' = "sort_domains"
    /\ UNCHANGED << table, files, open, values, domains, error, failed_at, first,
                   wvars >>

SortDomains ==
    /\ pc = "sort_domains"
    /\ domains' = Sort(domains)
    /\ pc' = "sort_emails"
    /\ UNCHANGED << table, files, open, values, emails, error, failed_at, first,
                   wvars >>

SortEmails ==
    /\ pc = "sort_emails"
    /\ emails' = Sort(emails)
    /\ pc' = "open_protonmail"
    /\ UNCHANGED << table, files, open, values, domains, error, failed_at, first,
                   wvars >>

\* open(path, "a"): the file is created, or kept as it is.
OpenOutAppending(name) ==
    /\ pc = "open_" \o name
    /\ \/ /\ files' = [ files EXCEPT ![name] = IF @ = Absent THEN << >> ELSE @ ]
          /\ open' = open \cup { name }
          /\ pc' = "write_" \o name
          /\ UNCHANGED << error, failed_at >>
       \/ /\ Raise("OSError")
          /\ UNCHANGED files
    /\ UNCHANGED << table, values, domains, emails, first, wvars >>

\* with open(path, "w") as f: the file is created or truncated, unless the
\* directory or the file cannot be written.
OpenOut(name) ==
    /\ pc = "open_" \o name
    /\ \/ /\ files' = [ files EXCEPT ![name] = << >> ]
          /\ open' = open \cup { name }
          /\ pc' = "write_" \o name
          /\ UNCHANGED << error, failed_at >>
       \/ /\ Raise("OSError")
          /\ UNCHANGED files
    /\ UNCHANGED << table, values, domains, emails, first, wvars >>

\* f.write(doc): the document is added to the file; on an I/O error none
\* or only a part of it is.
WriteOut(name, doc) ==
    /\ pc = "write_" \o name
    /\ \/ /\ files' = [ files EXCEPT ![name] = @ \o doc ]
          /\ pc' = "close_" \o name
          /\ UNCHANGED << open, error, failed_at >>
       \/ /\ \E k \in { 0, Len(doc) \div 2 } :
                files' = [ files EXCEPT ![name] = @ \o SubSeq(doc, 1, k) ]
          /\ Raise("OSError")
    /\ UNCHANGED << table, values, domains, emails, first, wvars >>

CloseOut(name, next) ==
    /\ pc = "close_" \o name
    /\ open' = open \ { name }
    /\ pc' = next
    /\ UNCHANGED << table, files, values, domains, emails, error, failed_at, first,
                   wvars >>

OpenProtonmail == OpenOut("protonmail")
WriteProtonmail ==
    WriteOut("protonmail", generate_protonmail_filter(domains, emails))
CloseProtonmail == CloseOut("protonmail", "open_gmail")
OpenGmail == OpenOut("gmail")
WriteGmail == WriteOut("gmail", generate_gmail_filter(domains, emails))
CloseGmail == CloseOut("gmail", "done")

\* The script is run again on the same file and directory.
Rerun ==
    /\ pc = "done"
    /\ first = NoSnapshot
    /\ first' = files
    /\ pc' = "start"
    /\ values' = { }
    /\ domains' = << >>
    /\ emails' = << >>
    /\ UNCHANGED << table, files, open, error, failed_at, wvars >>

WIdle ==
    /\ items = { }
    /\ items0 = { }
    /\ page = { }
    /\ batch = { }
    /\ issued = { }
    /\ wpc = "idle"

Init == GInit /\ WIdle

Next ==
    \/ OpenCsv
    \/ ReadRows
    \/ CloseCsv
    \/ ComputeDomains
    \/ ComputeEmails
    \/ SortDomains
    \/ SortEmails
    \/ OpenProtonmail
    \/ WriteProtonmail
    \/ CloseProtonmail
    \/ OpenGmail
    \/ WriteGmail
    \/ CloseGmail
    \/ Rerun

Spec == Init /\ [][Next]_vars

\* --------------------------------------------------------- properties ---

\* Positions of generate_contact_whitelist at which domains and emails
\* have both been computed / have both been sorted.
Partitioned ==
    \/ pc \in { "sort_domains", "sort_emails", "open_protonmail",
                "write_protonmail", "close_protonmail", "open_gmail",
                "write_gmail", "close_gmail", "done" }
    \/ pc = "failed" /\ error = "OSError"

Sorted ==
    \/ pc \in { "open_protonmail", "write_protonmail", "close_protonmail",
                "open_gmail", "write_gmail", "close_gmail", "done" }
    \/ pc = "failed" /\ error = "OSError"

\* The email values of the rows of the input table (a blank line has none).
InputAddresses == { table[i][3] : i \in { j \in DOMAIN table : Len(table[j]) >= 3 } }

BeginsWithAt(v) == v # << >> /\ Head(v) = "@"

\* C1: domains and emails are disjoint, their union is the deduplicated set
\* of the email values of the rows, domains holds exactly the values that
\* start with "@" and emails exactly the values that do not.
PartitionOfAddresses ==
    Partitioned =>
        /\ Range(domains) \cap Range(emails) = { }
        /\ Range(domains) \cup Range(emails) = InputAddresses
        /\ Range(domains) = { v \in InputAddresses : BeginsWithAt(v) }
        /\ Range(emails) = { v \in InputAddresses : ~BeginsWithAt(v) }

\* A table with a repeated row, a domain pattern and an exact email with an
\* "@" inside has been partitioned.
PartitionWitness ==
    /\ pc = "done"
    /\ Len(table) = 3
    /\ table[1] = table[3]
    /\ domains # << >>
    /\ QuotedAddress \in Range(emails)

\* a is before b in code-point order.
Precedes(a, b) ==
    \E k \in 1..Len(b) :
        /\ \A j \in 1..(k - 1) : j <= Len(a) /\ a[j] = b[j]
        /\ \/ k = Len(a) + 1
           \/ k <= Len(a) /\ CodePoint(a[k]) < CodePoint(b[k])

StrictlyAscending(s) == \A i \in 1..(Len(s) - 1) : Precedes(s[i], s[i + 1])

\* C2: when the two documents are rendered, domains and emails are each in
\* strictly ascending order, whatever the rows' order and multiplicity.
PartitionsStrictlyAscending ==
    Sorted => StrictlyAscending(domains) /\ StrictlyAscending(emails)

\* The documents are rendered from two emails that the table holds in
\* descending order, one of them twice.
AscendingWitness ==
    /\ pc = "write_protonmail"
    /\ Len(emails) = 2
    /\ Len(table) = 3
    /\ table[1] = table[3]
    /\ Precedes(emails[1], emails[2])
    /\ Len(table[1]) = 3
    /\ table[1][3] = emails[2]

\* s occurs in doc as a contiguous part.
Occurs(s, doc) ==
    \E i \in 0..(Len(doc) - Len(s)) : SubSeq(doc, i + 1, i + Len(s)) = s

\* C4 as stated: every address of the input appears in exactly one of the
\* two rendered documents.
AddressInExactlyOneDocument ==
    pc = "done" =>
        \A a \in InputAddresses :
            Occurs(a, files["protonmail"]) # Occurs(a, files["gmail"])

\* Reading a JSON string: t[i] is the first character after the opening
\* quote; the string read and the position after the closing quote.
RECURSIVE ReadString(_, _, _)
ReadString(t, i, acc) ==
    IF i > Len(t) THEN [ str |-> None, next |-> i ]
    ELSE IF t[i] = "\"" THEN [ str |-> acc, next |-> i + 1 ]
    ELSE IF t[i] = "\\" /\ i < Len(t)
         THEN ReadString(t, i + 2, Append(acc, t[i + 1]))
    ELSE ReadString(t, i + 1, Append(acc, t[i]))

\* Reading the elements of a JSON list of strings from t[i] on; the list
\* << None >> when t is no such list.
RECURSIVE ReadElements(_, _, _)
ReadElements(t, i, acc) ==
    IF i > Len(t) \/ t[i] # "\"" THEN << None >>
    ELSE LET r == ReadString(t, i + 1, << >>)
             n == r.next
         IN  IF r.str = None \/ n > Len(t) THEN << None >>
             ELSE IF t[n] = "]" /\ n = Len(t) THEN Append(acc, r.str)
             ELSE IF n + 2 <= Len(t) /\ t[n] = "," /\ t[n + 1] = " "
                  THEN ReadElements(t, n + 2, Append(acc, r.str))
             ELSE << None >>

ParseJsonList(t) ==
    IF t = << "[", "]" >> THEN << >>
    ELSE IF Len(t) < 2 \/ t[1] # "[" THEN << None >>
    ELSE ReadElements(t, 2, << >>)

\* The text of the protonmail document doc between the head of the rule
\* and the ":domain" line (the ":is" match list), and between that line and
\* the tail (the ":domain" match list); None when doc has not that shape.
MidAt(doc) ==
    { i \in (Len(ProtonHead) + 1)..(Len(doc) - Len(ProtonTail)) :
        /\ doc[i] = ProtonMid[1]
        /\ SubSeq(doc, i, i + Len(ProtonMid) - 1) = ProtonMid }

WellFormedRule(doc) ==
    /\ Len(doc) >= Len(ProtonHead) + Len(ProtonMid) + Len(ProtonTail)
    /\ SubSeq(doc, 1, Len(ProtonHead)) = ProtonHead
    /\ SubSeq(doc, Len(doc) - Len(ProtonTail) + 1, Len(doc)) = ProtonTail
    /\ Cardinality(MidAt(doc)) = 1

IsList(doc) ==
    LET i == CHOOSE j \in MidAt(doc) : TRUE
    IN  ParseJsonList(SubSeq(doc, Len(ProtonHead) + 1, i - 1))

DomainList(doc) ==
    LET i == CHOOSE j \in MidAt(doc) : TRUE
    IN  ParseJsonList(SubSeq(doc, i + Len(ProtonMid),
                             Len(doc) - Len(ProtonTail)))

From(a) == << "f", "r", "o", "m", ":" >> \o a

\* C4, amended: every address of the input appears in both rendered
\* documents: as a from: term of the gmail document, and as a string of
\* exactly one of the two match lists of the protonmail document.
AddressInBothDocuments ==
    pc = "done" =>
        /\ WellFormedRule(files["protonmail"])
        /\ \A a \in InputAddresses :
            /\ Occurs(From(a), files["gmail"])
            /\ (a \in Range(IsList(files["protonmail"])))
                   # (a \in Range(DomainList(files["protonmail"])))

\* Both documents are rendered from a domain pattern, an exact email and
\* the empty address.
BothDocumentsWitness ==
    /\ pc = "done"
    /\ DomainPattern \in InputAddresses
    /\ QuotedAddress \in InputAddresses
    /\ << >> \in InputAddresses

\* Where the i-th term starts in the gmail document of the values X: after
\* "NOT {" and i - 1 terms, each "from:", a value and a space.
RECURSIVE TermStart(_, _)
TermStart(X, i) ==
    IF i = 1 THEN 5 ELSE TermStart(X, i - 1) + 6 + Len(X[i - 1])

GmailExpression(doc, X) ==
    /\ Len(doc) = IF X = << >> THEN 6
                  ELSE TermStart(X, Len(X)) + 5 + Len(X[Len(X)]) + 1
    /\ SubSeq(doc, 1, 5) = << "N", "O", "T", " ", "{" >>
    /\ doc[Len(doc)] = "}"
    /\ \A i \in DOMAIN X :
        LET o == TermStart(X, i)
        IN  /\ SubSeq(doc, o + 1, o + 5) = << "f", "r", "o", "m", ":" >>
            /\ SubSeq(doc, o + 6, o + 5 + Len(X[i])) = X[i]
            /\ i < Len(X) => doc[o + 6 + Len(X[i])] = " "

ExampleTable ==
    LET alice == << "a", "l", "i", "c", "e", "@", "x", ".", "c", "o", "m" >>
        ycom == << "@", "y", ".", "c", "o", "m" >>
    IN  << << Rel, Name, alice >>, << Rel, Name, ycom >>,
           << Rel, Name, alice >> >>

ExampleGmail == <<
    "N", "O", "T", " ", "{", "f", "r", "o", "m", ":", "@", "y", ".", "c",
    "o", "m", " ", "f", "r", "o", "m", ":", "a", "l", "i", "c", "e", "@",
    "x", ".", "c", "o", "m", "}" >>

\* C5: the gmail document is NOT {from:X1 ... from:Xn} for X the sorted
\* domains followed by the sorted emails, terms separated by one space; the
\* rows alice@x.com, @y.com, alice@x.com give
\* NOT {from:@y.com from:alice@x.com}.
GmailFilterExpression ==
    /\ pc \in { "close_gmail", "done" } =>
            GmailExpression(files["gmail"], domains \o emails)
    /\ pc = "close_gmail" =>
        \A vals \in Orders(EmailSet(ExampleTable)) :
            LET ds == Sort(Domains(vals))
                es == Sort(Emails(vals, ds))
            IN  generate_gmail_filter(ds, es) = ExampleGmail

\* The gmail document of a domain pattern and two exact emails is written.
GmailWitness ==
    /\ pc = "close_gmail"
    /\ Len(domains) = 1
    /\ Len(emails) = 2

\* C6: the protonmail document is one rule filing into "miscellaneous"
\* whose :is list is the quoted, comma-separated emails and whose :domain
\* list is the quoted, comma-separated domains, each in its sorted order;
\* no exact email is in the :domain list, no domain pattern in the :is list.
ProtonmailFilterLists ==
    pc \in { "close_protonmail", "open_gmail", "write_gmail", "close_gmail",
             "done" } =>
        LET doc == files["protonmail"]
        IN  /\ WellFormedRule(doc)
            /\ IsList(doc) = emails
            /\ DomainList(doc) = domains
            /\ \A a \in Range(DomainList(doc)) : BeginsWithAt(a)
            /\ \A a \in Range(IsList(doc)) : ~BeginsWithAt(a)

\* The protonmail document of two domain patterns and an exact email that
\* JSON escapes is written.
ProtonmailWitness ==
    /\ pc = "close_protonmail"
    /\ Len(domains) = 2
    /\ emails = << QuotedAddress >>

\* C7: a second run on the same table and directory leaves both files
\* byte-identical to what the first run left, whatever the files held
\* before and whatever order the set is iterated in.
SecondRunIdentical ==
    pc = "done" /\ first # NoSnapshot => files = first

\* The second run has written both files, over those of the first, from
\* rows that are not in sorted order.
SecondRunWitness ==
    /\ pc = "done"
    /\ first # NoSnapshot
    /\ Len(table) = 3
    /\ Len(domains) = 2
    /\ Len(table[1]) = 3
    /\ table[1][3] = domains[2]

\* C8: on an empty table the function raises nothing of its own and, when
\* it has completed, both documents are written with empty match lists.
EmptyTableCompletes ==
    table = << >> =>
        /\ error \in { "none", "FileNotFoundError", "OSError" }
        /\ pc \notin { "start", "read", "failed" } =>
            values = { } /\ domains = << >> /\ emails = << >>
        /\ pc = "done" =>
            /\ files["gmail"] = << "N", "O", "T", " ", "{", "}" >>
            /\ WellFormedRule(files["protonmail"])
            /\ IsList(files["protonmail"]) = << >>
            /\ DomainList(files["protonmail"]) = << >>

EmptyTableWitness ==
    /\ table = << >>
    /\ pc = "done"
    /\ first # NoSnapshot

\* C9 as stated: a table with a row of fewer than three fields (two, one or
\* none) never lets the function complete.
ShortRowNeverCompletes ==
    (\E i \in DOMAIN table : Len(table[i]) < 3) => pc # "done"

\* What the files held when the current run started.
Prior ==
    IF first = NoSnapshot
    THEN [ protonmail |-> Absent, gmail |-> Absent ]
    ELSE first

\* C9, amended: a table with a row of one or two fields ends the function
\* with an error before any partition is computed and leaves both files as
\* they were; a row of no field (a blank line) is skipped, contributes no
\* address and lets the function complete.
ShortRowRaises ==
    /\ (\E i \in DOMAIN table : Len(table[i]) \in { 1, 2 }) =>
            /\ pc \in { "start", "read", "close_csv", "domains", "failed" }
            /\ pc = "failed" => error \in { "FileNotFoundError", "AttributeError" }
            /\ files = Prior
            /\ domains = << >> /\ emails = << >>
    /\ pc \notin { "start", "read", "failed" } =>
            values \ { None } = InputAddresses

\* A row of two fields after a well-formed row has raised AttributeError.
ShortRowWitness ==
    /\ pc = "failed"
    /\ error = "AttributeError"
    /\ Len(table) = 2
    /\ Len(table[1]) = 3
    /\ Len(table[2]) = 2

\* C10: at most one file is open at any time; the input is read and closed
\* and both partitions are sorted before an output file is opened; the
\* protonmail file is written and closed before the gmail file is opened; an
\* error while reading or processing the input leaves both files unchanged;
\* an error while writing the gmail file leaves the protonmail file holding
\* the new document.
OneFileAtATime ==
    /\ Cardinality(open) <= 1
    /\ "csv" \in open => pc \in { "read", "close_csv" }
    /\ "protonmail" \in open => pc \in { "write_protonmail", "close_protonmail" }
    /\ "gmail" \in open => pc \in { "write_gmail", "close_gmail" }
    /\ pc \in { "start", "read", "close_csv", "domains", "emails",
                "sort_domains", "sort_emails", "open_protonmail" } =>
            files = Prior
    /\ pc \in { "open_protonmail", "write_protonmail", "close_protonmail" } =>
            /\ files["gmail"] = Prior["gmail"]
            /\ StrictlyAscending(domains) /\ StrictlyAscending(emails)
    /\ error \in { "FileNotFoundError", "AttributeError" } => files = Prior
    /\ failed_at \in { "open_gmail", "write_gmail" }
         \/ pc \in { "open_gmail", "write_gmail", "close_gmail" } =>
            files["protonmail"] = generate_protonmail_filter(domains, emails)

\* The second run failed while writing the gmail file, after it had
\* replaced the protonmail file.
GmailWriteErrorWitness ==
    /\ pc = "failed"
    /\ failed_at = "write_gmail"
    /\ first # NoSnapshot
    /\ domains # << >>

\* ------------------------------------- delete-all-items-from-dynamodb ---

\* The primary keys an item of the table may have.
Keys == { [ pk |-> p, sk |-> s ] : p \in 1..MaxPk, s \in 1..MaxSk }

\* {"pk": item.get("pk"), "sk": item.get("sk")}
Key(item) == [ pk |-> item.pk, sk |-> item.sk ]

\* What one call of Table.scan() may return as "Items": the whole table,
\* or, when the table is larger than a response may be, the items of its
\* first page (the rest is behind LastEvaluatedKey).
ScanPages(S) == IF S = { } THEN { { } } ELSE (SUBSET S) \ { { } }

WInit ==
    /\ items \in SUBSET Keys
    /\ items0 = items
    /\ page = { }
    /\ batch = { }
    /\ issued = { }
    /\ wpc = "start"

\* The batch writer sends the requests b: the items are deleted.
Flush(b) ==
    /\ items' = items \ b
    /\ issued' = issued \cup b
    /\ batch' = { }

\* dynamodb_table.scan().get("Items", [])
Scan ==
    /\ wpc = "start"
    /\ page' \in ScanPages(items)
    /\ wpc' = "loop"
    /\ UNCHANGED << items, items0, batch, issued, gvars >>

\* batch.delete_item(Key=...): the request is buffered, and the buffer is
\* sent when it has reached the writer's flush amount.
DeleteItem ==
    /\ wpc = "loop"
    /\ \E item \in page :
        /\ page' = page \ { item }
        /\ \/ /\ batch' = batch \cup { Key(item) }
              /\ UNCHANGED << items, issued >>
           \/ Flush(batch \cup { Key(item) })
    /\ UNCHANGED << items0, wpc, gvars >>

\* The loop has ended; leaving the with block sends what is buffered.
ExitBatch ==
    /\ wpc = "loop"
    /\ page = { }
    /\ Flush(batch)
    /\ wpc' = "done"
    /\ UNCHANGED << items0, page, gvars >>

GIdle ==
    /\ table = << >>
    /\ files = [ protonmail |-> Absent, gmail |-> Absent ]
    /\ open = { }
    /\ pc = "idle"
    /\ values = { }
    /\ domains = << >>
    /\ emails = << >>
    /\ error = "none"
    /\ failed_at = "none"
    /\ first = NoSnapshot

InitWipe == WInit /\ GIdle

NextWipe ==
    \/ Scan
    \/ DeleteItem
    \/ ExitBatch

SpecWipe == InitWipe /\ [][NextWipe]_vars

\* C3: whenever main() has run to completion the table holds no item, and
\* every delete request issued has the key of an item the table held.
WipeDeletesAll ==
    wpc = "done" => items = { } /\ issued \subseteq items0

====
